---------------------------- MODULE Spec2Model ----------------------------
(***************************************************************************)
(* State-machine model of the waste-report backend:                        *)
(*   - classifyImage, in its two implementations                           *)
(*       "service"  src/src/services/classificationService.js (the one     *)
(*                  routes/reportRoutes.js imports, 10 s abort timer)      *)
(*       "part000"  src/unnamed/part_000 (30 s abort timer)                *)
(*     each with its own module-level imageCache and its own timers;       *)
(*   - router.post('/') of routes/reportRoutes.js, the submission          *)
(*     workflow, and router.post('/test-classify').                        *)
(*                                                                         *)
(* One action is one run of the event loop between two awaits.  Times are  *)
(* milliseconds; timers hold the time left until they fire.  Confidences   *)
(* are hundredths (0.65 is 65).  A string whose content matters only       *)
(* through String.includes is a sequence of tokens.                        *)
(***************************************************************************)
EXTENDS Integers, Sequences, FiniteSets, TLC

\* ------------------------------------------------------------------ bounds
MaxRequests == 2
MaxDets == 2
MaxDeletes == 2

\* ------------------------------------------------------- program constants
MIN_CONFIDENCE == 65
HIGH_CONFIDENCE_THRESHOLD == 85
WASTE_THRESHOLD == 25
IMPROVE_LOW == 70
IMPROVE_HIGH == 85
ROUTE_MIN_CONFIDENCE == 70
ABORT_MS_SERVICE == 10000
ABORT_MS_PART000 == 30000
CACHE_TTL_MS == 300000
UPLOAD_TIMEOUT_MS == 15000
MAX_IMAGE_BYTES == 5 * 1024 * 1024
WASTE_CLASS == 0

\* Time passes up to the next timer, or by half the cache lifetime if no timer
\* is due sooner.
TickStep == 150 * 1000

Impls == {"service", "part000"}

\* ------------------------------------------------------------- JS values
JsUndef == [type |-> "undefined"]
JsStr(s) == [type |-> "string", s |-> s]
JsNum(n) == [type |-> "number", n |-> n]
JsBool(b) == [type |-> "boolean", b |-> b]
JsFunction == [type |-> "function"]

\* An image string: an optional "data:image/<w>;base64," prefix followed by
\* `chars` characters of the base64 alphabet; `clean` is FALSE when other
\* characters occur among them; `tag` tells two contents of one length apart.
JsImage(prefix, chars, clean, tag) ==
    [type |-> "string", prefix |-> prefix, chars |-> chars, clean |-> clean, tag |-> tag]

\* JavaScript's ToBoolean, negated: the operand of `!x`.
Falsy(v) ==
    \/ v.type = "undefined"
    \/ v.type = "string" /\ "s" \in DOMAIN v /\ v.s = ""
    \/ v.type = "string" /\ "chars" \in DOMAIN v /\ ~v.prefix /\ v.chars = 0
    \/ v.type = "number" /\ v.n = 0
    \/ v.type = "boolean" /\ ~v.b

\* String.prototype.includes on a tokenised string.
Includes(msg, needle) == \E i \in 1..Len(msg) : msg[i] = needle

\* Buffer.from(base64Data, 'base64').length: three bytes for four characters.
DecodedLength(image) == (image.chars * 3) \div 4

\* /^(data:image\/\w+;base64,)?[A-Za-z0-9+/=]+$/.test(image)
MatchesBase64Pattern(image) == image.clean /\ image.chars >= 1

\* createHash('md5').update(imageBase64).digest('hex'): the digest of the whole
\* string, prefix included; distinct modelled strings have distinct digests.
Md5Hex(image) == <<image.prefix, image.chars, image.clean, image.tag>>


\* --------------------------------------------------------- detector answers
\* The JSON body of a successful answer: its detections sit under
\* images[0].results ("images"), under predictions[0].detections
\* ("predictions"), or under neither ("other").
Shapes == {"images", "predictions", "other"}
Classes == {0, 1}
ConfValues == {-5, 0, 24, 25, 64, 65, 70, 71, 84, 85, 100, 120}
Detection == [class : Classes, confidence : ConfValues]

RECURSIVE SeqsUpTo(_, _)
SeqsUpTo(S, n) ==
    IF n = 0 THEN {<<>>}
    ELSE LET shorter == SeqsUpTo(S, n - 1)
         IN  shorter \cup {Append(q, x) : q \in {t \in shorter : Len(t) = n - 1}, x \in S}

DetectorData == [shape : Shapes, dets : SeqsUpTo(Detection, MaxDets)]

\* The answers the running system draws from: at most one detection.
LiveDetections == {<<>>} \cup {<<[class |-> 0, confidence |-> c]>> : c \in {65, 70, 85}}
LiveData == [shape : {"images", "predictions"}, dets : LiveDetections]
\* Texts and statuses of the error answers the running system draws from.
LiveTexts == {<<"Unauthorized">>, <<"ECONNREFUSED">>}
LiveStatuses == {502}


\* ------------------------------------------------------ classifyImage, pure
\* The detections classifyImage reads out of the parsed body.
Detections(impl, data) ==
    IF impl = "service"
    THEN (IF data.shape = "images" THEN data.dets ELSE <<>>)
    ELSE (IF data.shape = "images" THEN data.dets
          ELSE IF data.shape = "predictions" THEN data.dets
          ELSE <<>>)

\* detections.filter(det => det.class === 0)
WasteDetections(dets) == SelectSeq(dets, LAMBDA det : det.class = WASTE_CLASS)

\* Math.max(...xs) of a non-empty list.
MathMax(xs) == CHOOSE m \in {xs[i] : i \in 1..Len(xs)} : \A i \in 1..Len(xs) : xs[i] <= m

MaxConfidence(dets) ==
    LET waste == WasteDetections(dets)
    IN  IF Len(waste) > 0
        THEN MathMax([i \in 1..Len(waste) |-> waste[i].confidence])
        ELSE 0

IsWasteOf(maxConfidence) == maxConfidence >= WASTE_THRESHOLD

\* Mutant of VerificationOf: the two thresholds tested in the wrong order.
VerificationOfMediumFirst(maxConfidence) ==
    IF IsWasteOf(maxConfidence)
    THEN (IF maxConfidence >= MIN_CONFIDENCE THEN "medium_confidence"
          ELSE IF maxConfidence >= HIGH_CONFIDENCE_THRESHOLD THEN "high_confidence"
          ELSE "unverified")
    ELSE "unverified"

VerificationOf(maxConfidence) ==
    IF IsWasteOf(maxConfidence)
    THEN (IF maxConfidence >= HIGH_CONFIDENCE_THRESHOLD THEN "high_confidence"
          ELSE IF maxConfidence >= MIN_CONFIDENCE THEN "medium_confidence"
          ELSE "unverified")
    ELSE "unverified"

NeedsImprovementOf(maxConfidence) ==
    IsWasteOf(maxConfidence) /\ maxConfidence > IMPROVE_LOW /\ maxConfidence < IMPROVE_HIGH

\* The result object built from maxConfidence.
BuildResult(maxConfidence) ==
    [isWaste |-> IsWasteOf(maxConfidence),
     label |-> IF IsWasteOf(maxConfidence) THEN "waste" ELSE "non-waste",
     confidence |-> maxConfidence,
     verification |-> VerificationOf(maxConfidence),
     isHighConfidence |-> maxConfidence >= HIGH_CONFIDENCE_THRESHOLD,
     isVerifiedWaste |-> IsWasteOf(maxConfidence) /\ maxConfidence >= HIGH_CONFIDENCE_THRESHOLD,
     modelVersion |-> "YOLOv8",
     needsImprovement |-> NeedsImprovementOf(maxConfidence),
     cacheHit |-> FALSE]

\* The verdict of a parsed answer.
VerdictOf(impl, data) == BuildResult(MaxConfidence(Detections(impl, data)))

\* What a cache hit returns: the stored object itself, or a copy with
\* cacheHit set.
CachedResult(impl, stored) ==
    IF impl = "service" THEN stored ELSE [stored EXCEPT !.cacheHit = TRUE]

\* `API_ERROR: ${response.status} - ${errorText}`
ApiErrorMessage(status, errorText) ==
    <<"API_ERROR", ":", ToString(status), "-">> \o errorText

AbortSeconds(impl) == IF impl = "service" THEN "10" ELSE "30"

\* The catch block: the message of the error classifyImage throws for the
\* error it caught.
ClassifyError(impl, error) ==
    IF error.name = "AbortError"
    THEN <<"SERVICE_TIMEOUT", ":", "Request timed out after", AbortSeconds(impl), "seconds">>
    ELSE IF Includes(error.message, "ECONNREFUSED") \/ Includes(error.message, "ENOTFOUND")
    THEN <<"SERVICE_DOWN", ":", "API server is unreachable">>
    ELSE IF Includes(error.message, "SERVICE_TIMEOUT")
    THEN <<"SERVICE_TIMEOUT", ":", "Request timed out">>
    ELSE <<"SERVICE_ERROR", ":">> \o error.message

\* Errors fetch, response.json() and response.text() reject with.
FetchErrors ==
    {[name |-> "FetchError", message |-> <<"request to", "failed, reason:", "connect", "ECONNREFUSED">>],
     [name |-> "FetchError", message |-> <<"request to", "failed, reason:", "getaddrinfo", "ENOTFOUND">>],
     [name |-> "FetchError", message |-> <<"request to", "failed, reason:", "socket hang up">>]}
LiveFetchErrors == {e \in FetchErrors : Len(e.message) # 4 \/ e.message[4] # "ENOTFOUND"}
BodyErrors ==
    {[name |-> "FetchError", message |-> <<"invalid json response body">>]}
AbortError == [name |-> "AbortError", message |-> <<"The user aborted a request.">>]


\* ------------------------------------------------------------ request bodies
ImageA == JsImage(FALSE, 8, TRUE, 1)
ImageB == JsImage(TRUE, 8, TRUE, 1)
\* 6990507 base64 characters decode to exactly 5 MB, one more to 5 MB + 1.
ImageAtLimit == JsImage(FALSE, 6990507, TRUE, 1)
ImageOverLimit == JsImage(FALSE, 6990508, TRUE, 1)
ImageOverLimitDirty == JsImage(TRUE, 6990508, FALSE, 1)
ImageDirty == JsImage(FALSE, 8, FALSE, 1)
ImageEmpty == JsImage(FALSE, 0, TRUE, 1)
ImagePrefixOnly == JsImage(TRUE, 0, TRUE, 1)

LiveImages == {ImageA, ImageB}
AllImages ==
    {JsUndef, ImageA, ImageB, ImageAtLimit, ImageOverLimit, ImageOverLimitDirty,
     ImageDirty, ImageEmpty, ImagePrefixOnly}
Hashes == {Md5Hex(i) : i \in AllImages \ {JsUndef}}

Body(title, image, details, address, latitude, longitude, reportType, forceSubmit) ==
    [title |-> title, image |-> image, details |-> details, address |-> address,
     latitude |-> latitude, longitude |-> longitude, reportType |-> reportType,
     forceSubmit |-> forceSubmit]

\* Bodies of the running system: every field present, a small image.
LiveBodies ==
    {Body(JsStr("t"), ImageA, JsStr("d"), JsStr("a"), JsNum(24), JsNum(67), JsUndef, f) :
        f \in {JsUndef, JsBool(TRUE)}}
    \cup {Body(JsStr("t"), ImageB, JsStr("d"), JsStr("a"), JsNum(24), JsNum(67),
               JsStr("hazardous"), f) : f \in {JsUndef, JsBool(TRUE)}}

\* The reportType of a body: absent, empty, a key of pointsMap, a string that
\* is no property of an object, and the name of a property every object
\* inherits.
ReportTypes ==
    {JsUndef, JsStr(""), JsStr("standard"), JsStr("hazardous"), JsStr("large"),
     JsStr("other"), JsStr("constructor")}

\* Bodies of the validation study: every field over present, empty and absent.
AllBodies ==
    {Body(ti, i, d, a, la, lo, t, f) :
        ti \in {JsUndef, JsStr(""), JsStr("t")}, i \in AllImages,
        d \in {JsUndef, JsStr("d")}, a \in {JsUndef, JsStr("a")},
        la \in {JsUndef, JsNum(0), JsNum(24)}, lo \in {JsUndef, JsNum(0), JsNum(67)},
        t \in ReportTypes, f \in {JsUndef, JsBool(FALSE), JsBool(TRUE)}}

NoBody == Body(JsUndef, JsUndef, JsUndef, JsUndef, JsUndef, JsUndef, JsUndef, JsUndef)
ImageOnly(image) == [NoBody EXCEPT !.image = image]

\* --------------------------------------------------------------------- state
VARIABLES
    reqs,         \* per request: the handler's position, locals and reply
    imageCache,   \* per implementation: hash -> <<>>, or the stored result in a sequence
    cacheTimers,  \* pending setTimeout(() => imageCache.delete(hash), 300000)
    reports,      \* the Report collection
    user,         \* the owning User document: reportCount and points
    assets,       \* images on the asset host, named by the uploading request
    window,       \* per implementation and hash: the first verdict returned
                  \* and the time left of the 5 minutes after it (history)
    probe,        \* the study of the pure functions: an input, then its result
    dels          \* per DELETE /api/report/:id request: position, locals, reply

vars == <<reqs, imageCache, cacheTimers, reports, user, assets, window, probe, dels>>

Reqs == 1..MaxRequests
Dels == 1..MaxDeletes

\* req.user._id of a request: the user whose submissions are modelled, or
\* someone else.
Callers == {"owner", "other"}

NoReply == [status |-> 0, code |-> "", error |-> <<>>, classification |-> <<>>,
            pointsEarned |-> <<>>, missingFields |-> <<>>]
NoDet == [kind |-> "none", status |-> 0, text |-> <<>>]

IdleReq ==
    [route |-> "none", pc |-> "idle", impl |-> "service", body |-> NoBody,
     abortT |-> -1, uploadT |-> -1, uploadLive |-> FALSE,
     classification |-> <<>>, thrown |-> <<>>, reply |-> NoReply, sent |-> 0,
     saveError |-> "", ledgerFailed |-> FALSE, detCalls |-> 0, cacheReads |-> 0, cacheWrites |-> 0, uploads |-> 0,
     saves |-> 0, ledgerUpdates |-> 0, det |-> NoDet, owed |-> <<>>]

NoProbe == [stage |-> "none"]

IdleDel == [pc |-> "idle", caller |-> "owner", id |-> 0, report |-> <<>>, status |-> 0]

InitSystem ==
    /\ reqs = [r \in Reqs |-> IdleReq]
    /\ imageCache = [i \in Impls |-> [h \in Hashes |-> <<>>]]
    /\ cacheTimers = {}
    /\ reports = {}
    /\ user = [reportCount |-> 0, points |-> 0]
    /\ assets = {}
    /\ window = [i \in Impls |-> [h \in Hashes |-> <<>>]]
    /\ dels = [d \in Dels |-> IdleDel]

Init == InitSystem /\ probe = NoProbe


\* ------------------------------------------------- router.post('/'), pure
\* res.status(status).json({code, ...}) followed by return.
Reply(req, status, code) ==
    [req EXCEPT !.pc = "done", !.sent = @ + 1,
                !.reply = [NoReply EXCEPT !.status = status, !.code = code]]

ReplyError(req, status, code, message) ==
    [req EXCEPT !.pc = "done", !.sent = @ + 1,
                !.reply = [NoReply EXCEPT !.status = status, !.code = code,
                                          !.error = message]]

\* The missingFields array, in the order of its pushes.
MissingFields(body) ==
    (IF Falsy(body.title) THEN <<"title">> ELSE <<>>)
    \o (IF Falsy(body.image) THEN <<"image">> ELSE <<>>)
    \o (IF Falsy(body.details) THEN <<"details">> ELSE <<>>)
    \o (IF Falsy(body.address) THEN <<"address">> ELSE <<>>)
    \o (IF Falsy(body.latitude) \/ Falsy(body.longitude) THEN <<"location">> ELSE <<>>)

\* Mutant of Validation: the size check moved behind the missing-fields check.
ValidationFieldsFirst(body) ==
    IF body.image.type = "undefined"
    THEN [NoReply EXCEPT !.status = 500, !.code = "INTERNAL_SERVER_ERROR",
                         !.error = <<"Cannot read properties of undefined">>]
    ELSE IF Len(MissingFields(body)) > 0
    THEN [NoReply EXCEPT !.status = 400, !.code = "MISSING_FIELDS",
                         !.missingFields = MissingFields(body)]
    ELSE IF DecodedLength(body.image) > MAX_IMAGE_BYTES
    THEN [NoReply EXCEPT !.status = 413, !.code = "IMAGE_TOO_LARGE"]
    ELSE IF ~MatchesBase64Pattern(body.image)
    THEN [NoReply EXCEPT !.status = 400, !.code = "INVALID_IMAGE_FORMAT"]
    ELSE NoReply

\* The server-side validation: the reply it ends the request with, or NoReply
\* when the body passes.  image.replace on an absent image throws a TypeError,
\* which the handler's outer catch answers.
Validation(body) ==
    IF body.image.type = "undefined"
    THEN [NoReply EXCEPT !.status = 500, !.code = "INTERNAL_SERVER_ERROR",
                         !.error = <<"Cannot read properties of undefined">>]
    ELSE IF DecodedLength(body.image) > MAX_IMAGE_BYTES
    THEN [NoReply EXCEPT !.status = 413, !.code = "IMAGE_TOO_LARGE"]
    ELSE IF Len(MissingFields(body)) > 0
    THEN [NoReply EXCEPT !.status = 400, !.code = "MISSING_FIELDS",
                         !.missingFields = MissingFields(body)]
    ELSE IF ~MatchesBase64Pattern(body.image)
    THEN [NoReply EXCEPT !.status = 400, !.code = "INVALID_IMAGE_FORMAT"]
    ELSE NoReply

\* Mutant of RunsAiCheck: the flag is ignored.
RunsAiCheckAlways(body) == TRUE

\* if (!forceSubmit): whether the AI check runs.
RunsAiCheck(body) == Falsy(body.forceSubmit)

\* The upload is issued with its 15 s timer and awaited.
StartUpload(req) ==
    [req EXCEPT !.pc = "upload", !.uploads = @ + 1, !.uploadLive = TRUE,
                !.uploadT = UPLOAD_TIMEOUT_MS]

\* Mutant of GateCode: the confidence check is missing.
GateCodeWasteOnly(verdict) == IF ~verdict.isWaste THEN "NOT_WASTE" ELSE ""

\* Mutant of GateCode: the confidence is held against the classifier's
\* MIN_CONFIDENCE.
GateCodeServiceThreshold(verdict) ==
    IF ~verdict.isWaste THEN "NOT_WASTE"
    ELSE IF verdict.confidence < MIN_CONFIDENCE THEN "LOW_CONFIDENCE"
    ELSE ""

\* The code of the rejection a verdict earns, "" when it passes.
GateCode(verdict) ==
    IF ~verdict.isWaste THEN "NOT_WASTE"
    ELSE IF verdict.confidence < ROUTE_MIN_CONFIDENCE THEN "LOW_CONFIDENCE"
    ELSE ""

\* The handling of the classification result.
Gate(req, classification) ==
    IF GateCode(classification) # ""
    THEN [Reply(req, 400, GateCode(classification)) EXCEPT
             !.reply.classification = <<classification>>]
    ELSE StartUpload(req)

\* classifyImage returned `classification` to its caller.
OnVerdict(req, classification) ==
    LET got == [req EXCEPT !.classification = <<classification>>]
    IN  CASE req.route = "submit" -> Gate(got, classification)
          [] req.route = "test" ->
                [Reply(got, 200, "") EXCEPT !.reply.classification = <<classification>>]
          [] OTHER -> [got EXCEPT !.pc = "done"]

\* Mutant of OnThrow: the submission goes on without a verdict.
OnThrowFailOpen(req, message) ==
    LET got == [req EXCEPT !.thrown = message]
    IN  CASE req.route = "submit" -> StartUpload(got)
          [] req.route = "test" -> ReplyError(got, 500, "", message)
          [] OTHER -> [got EXCEPT !.pc = "done"]

\* classifyImage threw an Error with `message` to its caller.
OnThrow(req, message) ==
    LET got == [req EXCEPT !.thrown = message]
    IN  CASE req.route = "submit" -> ReplyError(got, 503, "SERVICE_UNAVAILABLE", message)
          [] req.route = "test" -> ReplyError(got, 500, "", message)
          [] OTHER -> [got EXCEPT !.pc = "done"]

FinalReportType(body) == IF Falsy(body.reportType) THEN "standard" ELSE body.reportType.s

\* Names every object literal inherits from Object.prototype, as functions.
InheritedNames == {"constructor", "toString", "valueOf", "hasOwnProperty"}

\* pointsMap[key]: an own property, an inherited one, or undefined.
PointsMapGet(key) ==
    CASE key = "standard" -> JsNum(10)
      [] key = "hazardous" -> JsNum(20)
      [] key = "large" -> JsNum(15)
      [] key \in InheritedNames -> JsFunction
      [] OTHER -> JsUndef

\* pointsMap[finalReportType] || 10
PointsFor(reportType) ==
    IF Falsy(PointsMapGet(reportType)) THEN JsNum(10) ELSE PointsMapGet(reportType)

\* The pointsEarned key of the 201 body: JSON.stringify drops a key whose
\* value is a function.
PointsEarnedJson(points) == IF points.type = "number" THEN <<points.n>> ELSE <<>>

\* The aiVerification of the new Report.
AiVerification(classification) ==
    IF classification # <<>>
    THEN <<[isWaste |-> classification[1].isWaste,
            confidence |-> classification[1].confidence,
            verification |-> classification[1].verification]>>
    ELSE <<>>

NewReport(r, req) ==
    [id |-> r, publicId |-> r, reportType |-> FinalReportType(req.body),
     aiVerification |-> AiVerification(req.classification)]

AbortMs(impl) == IF impl = "service" THEN ABORT_MS_SERVICE ELSE ABORT_MS_PART000


\* ------------------------------------------------------------------ actions
CanStart(r) == reqs[r].pc = "idle" /\ (IF r = 1 THEN TRUE ELSE reqs[r - 1].pc # "idle")

\* History: the verdict a call on (impl, hash) owes its caller, if a verdict
\* for that image was returned less than 5 minutes ago.
Observe(impl, hash, verdict) ==
    IF window[impl][hash] = <<>>
    THEN [window EXCEPT ![impl][hash] =
             <<[confidence |-> verdict.confidence, isWaste |-> verdict.isWaste,
                verification |-> verdict.verification, left |-> CACHE_TTL_MS]>>]
    ELSE window

\* classifyImage from its first line to its first await (or to its return on
\* a cache hit, and on through the caller's handling of the verdict).
BeginClassify(r, req) ==
    LET hash == Md5Hex(req.body.image)
        asked == [req EXCEPT !.cacheReads = @ + 1, !.owed = window[req.impl][hash]]
    IN  /\ IF imageCache[req.impl][hash] # <<>>
           THEN LET verdict == CachedResult(req.impl, imageCache[req.impl][hash][1])
                IN  /\ reqs' = [reqs EXCEPT ![r] = OnVerdict(asked, verdict)]
                    /\ window' = Observe(req.impl, hash, verdict)
           ELSE /\ reqs' = [reqs EXCEPT ![r] =
                               [asked EXCEPT !.pc = "fetch", !.detCalls = @ + 1,
                                             !.abortT = AbortMs(req.impl)]]
                /\ UNCHANGED window
        /\ UNCHANGED <<imageCache, cacheTimers, reports, user, assets, probe, dels>>

\* POST /api/report: validation, then the AI check or straight to the upload.
Submit(r, body) ==
    /\ CanStart(r)
    /\ LET req == [IdleReq EXCEPT !.route = "submit", !.impl = "service", !.body = body]
       IN  IF Validation(body).status # 0
           THEN /\ reqs' = [reqs EXCEPT ![r] =
                               [req EXCEPT !.pc = "done", !.sent = @ + 1,
                                           !.reply = Validation(body)]]
                /\ UNCHANGED <<imageCache, cacheTimers, reports, user, assets, window, probe, dels>>
           ELSE IF RunsAiCheck(body)
           THEN BeginClassify(r, req)
           ELSE /\ reqs' = [reqs EXCEPT ![r] = StartUpload(req)]
                /\ UNCHANGED <<imageCache, cacheTimers, reports, user, assets, window, probe, dels>>

\* POST /api/report/test-classify
TestClassify(r, image) ==
    /\ CanStart(r)
    /\ LET req == [IdleReq EXCEPT !.route = "test", !.impl = "service",
                                  !.body = ImageOnly(image)]
       IN  IF Falsy(image)
           THEN /\ reqs' = [reqs EXCEPT ![r] = Reply(req, 400, "MISSING_IMAGE")]
                /\ UNCHANGED <<imageCache, cacheTimers, reports, user, assets, window, probe, dels>>
           ELSE BeginClassify(r, req)

\* A call of the classifyImage of part_000.
CallClassify(r, image) ==
    /\ CanStart(r)
    /\ BeginClassify(r, [IdleReq EXCEPT !.route = "direct", !.impl = "part000",
                                        !.body = ImageOnly(image)])

\* fetch resolves with the answer's status line and headers; clearTimeout.
FetchResolvesOk(r) ==
    /\ reqs[r].pc = "fetch"
    /\ reqs' = [reqs EXCEPT ![r].pc = "json", ![r].abortT = -1,
                            ![r].det = [NoDet EXCEPT !.kind = "ok", !.status = 200]]
    /\ UNCHANGED <<imageCache, cacheTimers, reports, user, assets, window, probe, dels>>

FetchResolvesNotOk(r, status) ==
    /\ reqs[r].pc = "fetch"
    /\ reqs' = [reqs EXCEPT ![r].pc = "text", ![r].abortT = -1,
                            ![r].det = [NoDet EXCEPT !.kind = "status", !.status = status]]
    /\ UNCHANGED <<imageCache, cacheTimers, reports, user, assets, window, probe, dels>>

\* fetch rejects: the abort timer is left running.
FetchRejects(r, error) ==
    /\ reqs[r].pc = "fetch"
    /\ reqs' = [reqs EXCEPT ![r] =
                   OnThrow([reqs[r] EXCEPT !.det = [NoDet EXCEPT !.kind = "network",
                                                                 !.text = error.message]],
                           ClassifyError(reqs[r].impl, error))]
    /\ UNCHANGED <<imageCache, cacheTimers, reports, user, assets, window, probe, dels>>

\* The abort timer fires: controller.abort() rejects a pending fetch.
AbortFires(r) ==
    /\ reqs[r].abortT = 0
    /\ reqs' = [reqs EXCEPT ![r] =
                   IF reqs[r].pc = "fetch"
                   THEN OnThrow([reqs[r] EXCEPT !.abortT = -1,
                                                !.det = [NoDet EXCEPT !.kind = "abort"]],
                                ClassifyError(reqs[r].impl, AbortError))
                   ELSE [reqs[r] EXCEPT !.abortT = -1]]
    /\ UNCHANGED <<imageCache, cacheTimers, reports, user, assets, window, probe, dels>>

\* response.json() resolves: verdict, imageCache.set, setTimeout, return.
JsonResolves(r, data) ==
    /\ reqs[r].pc = "json"
    /\ LET impl == reqs[r].impl
           hash == Md5Hex(reqs[r].body.image)
           result == VerdictOf(impl, data)
       IN  /\ imageCache' = [imageCache EXCEPT ![impl][hash] = Append(<<>>, result)]
           /\ cacheTimers' = cacheTimers \cup
                                {[impl |-> impl, hash |-> hash, left |-> CACHE_TTL_MS]}
           /\ reqs' = [reqs EXCEPT ![r] =
                          OnVerdict([reqs[r] EXCEPT !.cacheWrites = @ + 1], result)]
           /\ window' = Observe(impl, hash, result)
    /\ UNCHANGED <<reports, user, assets, probe, dels>>

\* response.json() rejects.
JsonRejects(r, error) ==
    /\ reqs[r].pc = "json"
    /\ reqs' = [reqs EXCEPT ![r] =
                   OnThrow([reqs[r] EXCEPT !.det.kind = "badbody"],
                           ClassifyError(reqs[r].impl, error))]
    /\ UNCHANGED <<imageCache, cacheTimers, reports, user, assets, window, probe, dels>>

\* response.text() resolves: throw API_ERROR, caught by the catch block.
TextResolves(r, text) ==
    /\ reqs[r].pc = "text"
    /\ reqs' = [reqs EXCEPT ![r] =
                   OnThrow([reqs[r] EXCEPT !.det.kind = "http", !.det.text = text],
                           ClassifyError(reqs[r].impl,
                               [name |-> "Error",
                                message |-> ApiErrorMessage(reqs[r].det.status, text)]))]
    /\ UNCHANGED <<imageCache, cacheTimers, reports, user, assets, window, probe, dels>>

\* response.text() rejects.
TextRejects(r, error) ==
    /\ reqs[r].pc = "text"
    /\ reqs' = [reqs EXCEPT ![r] =
                   OnThrow([reqs[r] EXCEPT !.det.kind = "badbody"],
                           ClassifyError(reqs[r].impl, error))]
    /\ UNCHANGED <<imageCache, cacheTimers, reports, user, assets, window, probe, dels>>

\* setTimeout(() => imageCache.delete(hash), 300000) fires.
CacheTimerFires(t) ==
    /\ t \in cacheTimers
    /\ t.left = 0
    /\ imageCache' = [imageCache EXCEPT ![t.impl][t.hash] = <<>>]
    /\ cacheTimers' = cacheTimers \ {t}
    /\ UNCHANGED <<reqs, reports, user, assets, window, probe, dels>>


\* cloudinary.uploader.upload resolves first: the asset exists; the report is
\* built and newReport.save() is issued.  The 15 s timer is left running.
CloudinaryResolves(r) ==
    /\ reqs[r].pc = "upload"
    /\ assets' = assets \cup {r}
    /\ reqs' = [reqs EXCEPT ![r].pc = "save", ![r].uploadLive = FALSE,
                            ![r].saves = @ + 1]
    /\ UNCHANGED <<imageCache, cacheTimers, reports, user, window, probe, dels>>

\* Mutant of CloudinaryRejects: the handler goes on to the save.
CloudinaryRejectsGoesOn(r) ==
    /\ reqs[r].pc = "upload"
    /\ reqs' = [reqs EXCEPT ![r].pc = "save", ![r].uploadLive = FALSE,
                            ![r].saves = @ + 1]
    /\ UNCHANGED <<imageCache, cacheTimers, reports, user, assets, window, probe, dels>>

\* cloudinary.uploader.upload rejects first.
CloudinaryRejects(r) ==
    /\ reqs[r].pc = "upload"
    /\ reqs' = [reqs EXCEPT ![r] =
                   ReplyError([reqs[r] EXCEPT !.uploadLive = FALSE], 500,
                              "CLOUDINARY_ERROR", <<"upload failed">>)]
    /\ UNCHANGED <<imageCache, cacheTimers, reports, user, assets, window, probe, dels>>

\* The 15 s timer fires: Promise.race rejects with CLOUDINARY_TIMEOUT if the
\* upload is still pending; the upload itself goes on.
UploadTimerFires(r) ==
    /\ reqs[r].uploadT = 0
    /\ reqs' = [reqs EXCEPT ![r] =
                   IF reqs[r].pc = "upload"
                   THEN Reply([reqs[r] EXCEPT !.uploadT = -1], 504, "CLOUDINARY_TIMEOUT")
                   ELSE [reqs[r] EXCEPT !.uploadT = -1]]
    /\ UNCHANGED <<imageCache, cacheTimers, reports, user, assets, window, probe, dels>>

\* An upload that lost the race settles.
CloudinarySettlesLate(r, stored) ==
    /\ reqs[r].pc # "upload"
    /\ reqs[r].uploadLive
    /\ assets' = IF stored THEN assets \cup {r} ELSE assets
    /\ reqs' = [reqs EXCEPT ![r].uploadLive = FALSE]
    /\ UNCHANGED <<imageCache, cacheTimers, reports, user, window, probe, dels>>

\* newReport.save() resolves; User.findByIdAndUpdate is issued.
SaveResolves(r) ==
    /\ reqs[r].pc = "save"
    /\ reports' = reports \cup {NewReport(r, reqs[r])}
    /\ reqs' = [reqs EXCEPT ![r].pc = "ledger", ![r].ledgerUpdates = @ + 1]
    /\ UNCHANGED <<imageCache, cacheTimers, user, assets, window, probe, dels>>

\* Mutant of CatchReply: no branch for ValidationError.
CatchReplyAlways500(req, name) == ReplyError(req, 500, "INTERNAL_SERVER_ERROR", <<name>>)

\* The outer catch: the reply to an error thrown in the handler, by its name.
CatchReply(req, name) ==
    IF name = "ValidationError"
    THEN ReplyError(req, 400, "VALIDATION_ERROR", <<name>>)
    ELSE ReplyError(req, 500, "INTERNAL_SERVER_ERROR", <<name>>)

\* Mutant of SaveRejects: the uploaded asset is destroyed before the reply.
SaveRejectsDestroysAsset(r, name) ==
    /\ reqs[r].pc = "save"
    /\ reqs' = [reqs EXCEPT ![r] = CatchReply([reqs[r] EXCEPT !.saveError = name], name)]
    /\ assets' = assets \ {r}
    /\ UNCHANGED <<imageCache, cacheTimers, reports, user, window, probe, dels>>

\* newReport.save() rejects.
SaveRejects(r, name) ==
    /\ reqs[r].pc = "save"
    /\ reqs' = [reqs EXCEPT ![r] = CatchReply([reqs[r] EXCEPT !.saveError = name], name)]
    /\ UNCHANGED <<imageCache, cacheTimers, reports, user, assets, window, probe, dels>>

Created(req) ==
    [Reply(req, 201, "") EXCEPT
        !.reply.pointsEarned = PointsEarnedJson(PointsFor(FinalReportType(req.body))),
        !.reply.classification = req.classification]

\* User.findByIdAndUpdate resolves: $inc applied; 201.  An increment that is
\* no number is never applied: the update rejects.
LedgerResolves(r) ==
    /\ reqs[r].pc = "ledger"
    /\ PointsFor(FinalReportType(reqs[r].body)).type = "number"
    /\ user' = [reportCount |-> user.reportCount + 1,
                points |-> user.points + PointsFor(FinalReportType(reqs[r].body)).n]
    /\ reqs' = [reqs EXCEPT ![r] = Created(reqs[r])]
    /\ UNCHANGED <<imageCache, cacheTimers, reports, assets, window, probe, dels>>

\* Mutant of OnLedgerFailure: the failure is answered like any other error.
OnLedgerFailureRejects(req) ==
    ReplyError([req EXCEPT !.ledgerFailed = TRUE], 500, "INTERNAL_SERVER_ERROR",
               <<"MongoServerError">>)

\* catch (updateError): console.error, then on to the 201.
OnLedgerFailure(req) == Created([req EXCEPT !.ledgerFailed = TRUE])

\* User.findByIdAndUpdate rejects: logged; 201 all the same.
LedgerRejects(r) ==
    /\ reqs[r].pc = "ledger"
    /\ reqs' = [reqs EXCEPT ![r] = OnLedgerFailure(reqs[r])]
    /\ UNCHANGED <<imageCache, cacheTimers, reports, user, assets, window, probe, dels>>

\* ------------------------------------------------- router.delete('/:id')
\* report.user of a saved report: every submission modelled is the owner's.
ReportUser(report) == "owner"

\* res.status(status).json(...) of the delete handler.
DeleteReply(del, status) == [del EXCEPT !.pc = "done", !.status = status]

\* report.reportType ? pointsMap[report.reportType] || 10 : 10
PointsToDeduct(report) ==
    IF report.reportType # "" THEN PointsFor(report.reportType) ELSE JsNum(10)

\* DELETE /api/report/:id up to await Report.findById.
DeleteReport(d, caller, id) ==
    /\ dels[d].pc = "idle"
    /\ IF d = 1 THEN TRUE ELSE dels[d - 1].pc # "idle"
    /\ dels' = [dels EXCEPT ![d] = [IdleDel EXCEPT !.pc = "find", !.caller = caller,
                                                    !.id = id]]
    /\ UNCHANGED <<reqs, imageCache, cacheTimers, reports, user, assets, window, probe>>

\* findById resolves with the document or null: 404, 401, or on to
\* cloudinary.uploader.destroy (publicId is set on every saved report).
FindResolves(d) ==
    /\ dels[d].pc = "find"
    /\ LET found == {rep \in reports : rep.id = dels[d].id}
       IN  dels' = [dels EXCEPT ![d] =
                       IF found = {} THEN DeleteReply(dels[d], 404)
                       ELSE IF ReportUser(CHOOSE rep \in found : TRUE) # dels[d].caller
                       THEN DeleteReply(dels[d], 401)
                       ELSE [dels[d] EXCEPT !.pc = "destroy",
                                            !.report = <<CHOOSE rep \in found : TRUE>>]]
    /\ UNCHANGED <<reqs, imageCache, cacheTimers, reports, user, assets, window, probe>>

\* An await of the delete handler rejects outside the inner try: the outer
\* catch answers 500.
DeleteAwaitRejects(d) ==
    /\ dels[d].pc \in {"find", "deduct", "remove"}
    /\ dels' = [dels EXCEPT ![d] = DeleteReply(dels[d], 500)]
    /\ UNCHANGED <<reqs, imageCache, cacheTimers, reports, user, assets, window, probe>>

\* cloudinary.uploader.destroy settles; a rejection is logged.  Either way
\* User.findByIdAndUpdate with the negative increments is issued.
DestroySettles(d, destroyed) ==
    /\ dels[d].pc = "destroy"
    /\ assets' = IF destroyed THEN assets \ {dels[d].report[1].publicId} ELSE assets
    /\ dels' = [dels EXCEPT ![d].pc = "deduct"]
    /\ UNCHANGED <<reqs, imageCache, cacheTimers, reports, user, window, probe>>

\* User.findByIdAndUpdate resolves: $inc applied; report.deleteOne() issued.
DeductResolves(d) ==
    /\ dels[d].pc = "deduct"
    /\ PointsToDeduct(dels[d].report[1]).type = "number"
    /\ user' = [reportCount |-> user.reportCount - 1,
                points |-> user.points - PointsToDeduct(dels[d].report[1]).n]
    /\ dels' = [dels EXCEPT ![d].pc = "remove"]
    /\ UNCHANGED <<reqs, imageCache, cacheTimers, reports, assets, window, probe>>

\* report.deleteOne() resolves, whether or not the document was still there.
RemoveResolves(d) ==
    /\ dels[d].pc = "remove"
    /\ reports' = {rep \in reports : rep.id # dels[d].id}
    /\ dels' = [dels EXCEPT ![d] = DeleteReply(dels[d], 200)]
    /\ UNCHANGED <<reqs, imageCache, cacheTimers, user, assets, window, probe>>

\* ----------------------------------------------------------------------- time
Deadlines ==
    {reqs[r].abortT : r \in {q \in Reqs : reqs[q].abortT >= 0}}
    \cup {reqs[r].uploadT : r \in {q \in Reqs : reqs[q].uploadT >= 0}}
    \cup {t.left : t \in cacheTimers}
    \cup {window[w[1]][w[2]][1].left :
             w \in {v \in Impls \X Hashes : window[v[1]][v[2]] # <<>>}}

NextDeadline == CHOOSE d \in Deadlines : \A e \in Deadlines : d <= e

Elapse(left, d) == IF left < 0 THEN left ELSE left - d

\* d milliseconds pass; no timer is overrun.  A window that has run out closes.
Tick(d) ==
    /\ Deadlines # {}
    /\ d > 0
    /\ d <= NextDeadline
    /\ reqs' = [r \in Reqs |->
                   [reqs[r] EXCEPT !.abortT = Elapse(@, d), !.uploadT = Elapse(@, d)]]
    /\ cacheTimers' = {[t EXCEPT !.left = @ - d] : t \in cacheTimers}
    /\ window' = [i \in Impls |-> [h \in Hashes |->
                     IF window[i][h] = <<>> \/ window[i][h][1].left - d <= 0
                     THEN <<>>
                     ELSE <<[window[i][h][1] EXCEPT !.left = @ - d]>>]]
    /\ UNCHANGED <<imageCache, reports, user, assets, probe, dels>>

\* Time passes by one step, or up to the next timer.
TickChoices == IF Deadlines = {} THEN {} ELSE {TickStep, NextDeadline}

\* --------------------------------------------------------------- the system
Environment ==
    \/ \E r \in Reqs : FetchResolvesOk(r)
    \/ \E r \in Reqs, status \in LiveStatuses : FetchResolvesNotOk(r, status)
    \/ \E r \in Reqs, error \in LiveFetchErrors : FetchRejects(r, error)
    \/ \E r \in Reqs : AbortFires(r)
    \/ \E r \in Reqs, data \in LiveData : JsonResolves(r, data)
    \/ \E r \in Reqs, error \in BodyErrors : JsonRejects(r, error)
    \/ \E r \in Reqs, text \in LiveTexts : TextResolves(r, text)
    \/ \E r \in Reqs, error \in BodyErrors : TextRejects(r, error)
    \/ \E t \in cacheTimers : CacheTimerFires(t)
    \/ \E r \in Reqs : CloudinaryResolves(r)
    \/ \E r \in Reqs : CloudinaryRejects(r)
    \/ \E r \in Reqs : UploadTimerFires(r)
    \/ \E r \in Reqs, stored \in BOOLEAN : CloudinarySettlesLate(r, stored)
    \/ \E r \in Reqs : SaveResolves(r)
    \/ \E r \in Reqs, name \in {"ValidationError", "MongoServerError"} : SaveRejects(r, name)
    \/ \E r \in Reqs : LedgerResolves(r)
    \/ \E r \in Reqs : LedgerRejects(r)
    \/ \E d \in TickChoices : Tick(d)

Next ==
    \/ \E r \in Reqs, body \in LiveBodies : Submit(r, body)
    \/ \E r \in Reqs, image \in LiveImages : TestClassify(r, image)
    \/ \E r \in Reqs, image \in LiveImages : CallClassify(r, image)
    \/ Environment

Spec == Init /\ [][Next]_vars


\* ------------------------------------------ one submission, every kind of body
NextValidation ==
    \/ CanStart(1) /\ \E body \in AllBodies : Submit(1, body)
    \/ Environment

SpecValidation == Init /\ [][NextValidation]_vars

\* The same submission under the one thing the event loop guarantees: time
\* passes and a timer that is due runs its callback.  Nothing makes an
\* external system answer.
TimersRun ==
    /\ WF_vars(\E d \in TickChoices : Tick(d))
    /\ \A r \in Reqs : WF_vars(AbortFires(r)) /\ WF_vars(UploadTimerFires(r))
    /\ WF_vars(\E t \in cacheTimers : CacheTimerFires(t))

SpecTimers == Init /\ [][NextValidation]_vars /\ TimersRun

\* ------------------------- one forced submission and the deletes of its report
LedgerBodies ==
    {Body(JsStr("t"), ImageA, JsStr("d"), JsStr("a"), JsNum(24), JsNum(67), t,
          JsBool(TRUE)) : t \in {JsUndef, JsStr("hazardous")}}

NextLedger ==
    \/ CanStart(1) /\ \E body \in LedgerBodies : Submit(1, body)
    \/ \E r \in Reqs : CloudinaryResolves(r)
    \/ \E r \in Reqs : CloudinaryRejects(r)
    \/ \E r \in Reqs : UploadTimerFires(r)
    \/ \E r \in Reqs, stored \in BOOLEAN : CloudinarySettlesLate(r, stored)
    \/ \E r \in Reqs : SaveResolves(r)
    \/ \E r \in Reqs, name \in {"ValidationError", "MongoServerError"} : SaveRejects(r, name)
    \/ \E r \in Reqs : LedgerResolves(r)
    \/ \E r \in Reqs : LedgerRejects(r)
    \/ \E d \in TickChoices : Tick(d)
    \/ \E d \in Dels, caller \in Callers, id \in Reqs : DeleteReport(d, caller, id)
    \/ \E d \in Dels : FindResolves(d)
    \/ \E d \in Dels : DeleteAwaitRejects(d)
    \/ \E d \in Dels, destroyed \in BOOLEAN : DestroySettles(d, destroyed)
    \/ \E d \in Dels : DeductResolves(d)
    \/ \E d \in Dels : RemoveResolves(d)

SpecLedger == Init /\ [][NextLedger]_vars

\* --------------------------------------- the verdict as a function of the answer
ProbeInputs == [stage : {"input"}, impl : Impls, data : DetectorData]

InitPure == InitSystem /\ probe \in ProbeInputs

\* classifyImage's computation on the parsed answer.
ProbeVerdict ==
    /\ probe.stage = "input"
    /\ probe' = [stage |-> "fresh", impl |-> probe.impl, data |-> probe.data,
                 verdict |-> VerdictOf(probe.impl, probe.data)]
    /\ UNCHANGED <<reqs, imageCache, cacheTimers, reports, user, assets, window, dels>>

\* What a later call gets back for the stored result.
ProbeCached ==
    /\ probe.stage = "fresh"
    /\ probe' = [probe EXCEPT !.stage = "cached",
                              !.verdict = CachedResult(probe.impl, probe.verdict)]
    /\ UNCHANGED <<reqs, imageCache, cacheTimers, reports, user, assets, window, dels>>

NextPure == ProbeVerdict \/ ProbeCached

SpecPure == InitPure /\ [][NextPure]_vars


\* ====================================================================== claims
Kinds == {"SERVICE_TIMEOUT", "SERVICE_DOWN", "SERVICE_ERROR"}
Returned(req) == req.classification # <<>> \/ req.thrown # <<>>
NoSideEffects(req) == req.uploads = 0 /\ req.saves = 0 /\ req.ledgerUpdates = 0
SubmitsOf == {r \in Reqs : reqs[r].route = "submit"}

\* C1: a classify call started less than 5 minutes after a verdict was
\* returned for the same payload returns a verdict with the same confidence,
\* isWaste and verification, and with cacheHit = TRUE.
C1_RepeatWithinFiveMinutes ==
    \A r \in Reqs :
        (Returned(reqs[r]) /\ reqs[r].owed # <<>>) =>
            /\ reqs[r].classification # <<>>
            /\ reqs[r].classification[1].confidence = reqs[r].owed[1].confidence
            /\ reqs[r].classification[1].isWaste = reqs[r].owed[1].isWaste
            /\ reqs[r].classification[1].verification = reqs[r].owed[1].verification
            /\ reqs[r].classification[1].cacheHit = TRUE

\* C2: a submission with forceSubmit set that passes validation issues no
\* detector request and neither reads nor writes the result cache; the report
\* it persists has aiVerification = null and its 201 reply no classification.
C2_ForceSubmitSkipsClassification ==
    \A r \in SubmitsOf :
        (~Falsy(reqs[r].body.forceSubmit) /\ reqs[r].reply.code \notin
             {"IMAGE_TOO_LARGE", "MISSING_FIELDS", "INVALID_IMAGE_FORMAT"}) =>
            /\ reqs[r].detCalls = 0
            /\ reqs[r].cacheReads = 0
            /\ reqs[r].cacheWrites = 0
            /\ \A rep \in reports : rep.id = r => rep.aiVerification = <<>>
            /\ reqs[r].reply.classification = <<>>

C2_Witness ==
    \E r \in SubmitsOf :
        /\ ~Falsy(reqs[r].body.forceSubmit)
        /\ reqs[r].reply.status = 201
        /\ \E rep \in reports : rep.id = r
        /\ \E i \in Impls, h \in Hashes : imageCache[i][h] # <<>>

\* C3: a submission whose image decodes to more than 5 MB is rejected with
\* 413 IMAGE_TOO_LARGE, and issues no detector call, upload, save or ledger
\* update (nor a read of the result cache).
C3_TooLargeRejectedFirst ==
    \A r \in SubmitsOf :
        (reqs[r].body.image.type = "string"
         /\ (reqs[r].body.image.chars * 3) \div 4 > 5242880) =>
            /\ reqs[r].pc = "done"
            /\ reqs[r].sent = 1
            /\ reqs[r].reply.status = 413
            /\ reqs[r].reply.code = "IMAGE_TOO_LARGE"
            /\ reqs[r].detCalls = 0
            /\ reqs[r].cacheReads = 0
            /\ NoSideEffects(reqs[r])

C3_Witness ==
    \E r \in SubmitsOf :
        /\ reqs[r].body.image = ImageOverLimitDirty
        /\ reqs[r].body.title = JsUndef
        /\ reqs[r].reply.code = "IMAGE_TOO_LARGE"

\* C4: when classify fails in a non-forced submission, the submission is
\* rejected with 503 SERVICE_UNAVAILABLE carrying the error's message, the
\* detector was called exactly once, and no upload, save or ledger update
\* was issued.
C4_ClassifyFailureRejects ==
    \A r \in SubmitsOf :
        reqs[r].thrown # <<>> =>
            /\ reqs[r].thrown[1] \in Kinds
            /\ reqs[r].pc = "done"
            /\ reqs[r].sent = 1
            /\ reqs[r].reply.status = 503
            /\ reqs[r].reply.code = "SERVICE_UNAVAILABLE"
            /\ reqs[r].reply.error = reqs[r].thrown
            /\ reqs[r].detCalls = 1
            /\ NoSideEffects(reqs[r])

C4_Witness ==
    \E r \in SubmitsOf :
        /\ reqs[r].det.kind = "abort"
        /\ reqs[r].thrown # <<>> /\ reqs[r].thrown[1] = "SERVICE_TIMEOUT"
        /\ reqs[r].reply.status = 503

\* C5: in a non-forced submission where classify succeeds, a verdict with
\* isWaste = FALSE is rejected with 400 NOT_WASTE, otherwise one with
\* confidence < 0.7 with 400 LOW_CONFIDENCE, both without upload, save or
\* ledger update; a verdict with isWaste and confidence >= 0.7, and only
\* such a verdict, lets the upload be issued.
C5_VerdictGate ==
    \A r \in SubmitsOf :
        /\ reqs[r].classification # <<>> =>
              LET v == reqs[r].classification[1]
              IN  /\ ~v.isWaste =>
                        /\ reqs[r].reply.status = 400 /\ reqs[r].reply.code = "NOT_WASTE"
                        /\ reqs[r].pc = "done" /\ NoSideEffects(reqs[r])
                  /\ (v.isWaste /\ v.confidence < 70) =>
                        /\ reqs[r].reply.status = 400 /\ reqs[r].reply.code = "LOW_CONFIDENCE"
                        /\ reqs[r].pc = "done" /\ NoSideEffects(reqs[r])
                  /\ (v.isWaste /\ v.confidence >= 70) => reqs[r].uploads = 1
        /\ (Falsy(reqs[r].body.forceSubmit) /\ reqs[r].uploads > 0) =>
              /\ reqs[r].classification # <<>>
              /\ reqs[r].classification[1].isWaste
              /\ reqs[r].classification[1].confidence >= 70

C5_Witness ==
    /\ \E r \in SubmitsOf :
          /\ reqs[r].reply.code = "LOW_CONFIDENCE"
          /\ reqs[r].classification[1].confidence = 65
    /\ \E r \in SubmitsOf :
          /\ reqs[r].classification # <<>>
          /\ reqs[r].classification[1].confidence = 70
          /\ reqs[r].pc = "upload"

\* C6: when the save of the report fails after classification and upload
\* succeeded, a schema-validation error is answered 400 VALIDATION_ERROR and
\* any other error 500 INTERNAL_SERVER_ERROR, and the submission issues no
\* ledger update: the user's reportCount counts only submissions whose
\* ledger update was issued.
C6_SaveFailure ==
    /\ \A r \in SubmitsOf :
          /\ reqs[r].saveError = "ValidationError" =>
                /\ reqs[r].reply.status = 400 /\ reqs[r].reply.code = "VALIDATION_ERROR"
                /\ reqs[r].pc = "done" /\ reqs[r].ledgerUpdates = 0
          /\ reqs[r].saveError \notin {"", "ValidationError"} =>
                /\ reqs[r].reply.status = 500 /\ reqs[r].reply.code = "INTERNAL_SERVER_ERROR"
                /\ reqs[r].pc = "done" /\ reqs[r].ledgerUpdates = 0
    /\ user.reportCount <= Cardinality({r \in SubmitsOf : reqs[r].saveError = "" /\ reqs[r].ledgerUpdates = 1})

C6_Witness ==
    \E r \in SubmitsOf :
        /\ reqs[r].saveError = "ValidationError"
        /\ reqs[r].classification # <<>>
        /\ r \in assets
        /\ reqs[r].reply.code = "VALIDATION_ERROR"
        /\ user.reportCount = 0 /\ user.points = 0


Lacks(v) == v.type = "undefined" \/ (v.type = "string" /\ Falsy(v))
LacksRequired(body) ==
    \/ Lacks(body.title) \/ Lacks(body.image) \/ Lacks(body.details)
    \/ Lacks(body.address) \/ Lacks(body.latitude) \/ Lacks(body.longitude)

\* C7: a submission lacking a required field (title, image, details, address,
\* latitude, longitude) is rejected with 400 MISSING_FIELDS naming fields,
\* without any external call; a submission with every required field present,
\* whatever its values, is never rejected with MISSING_FIELDS.
C7_MissingFieldsExactly ==
    \A r \in SubmitsOf :
        /\ LacksRequired(reqs[r].body) =>
              /\ reqs[r].reply.status = 400
              /\ reqs[r].reply.code = "MISSING_FIELDS"
              /\ Len(reqs[r].reply.missingFields) > 0
              /\ reqs[r].detCalls = 0 /\ NoSideEffects(reqs[r])
        /\ ~LacksRequired(reqs[r].body) => reqs[r].reply.code # "MISSING_FIELDS"

Consistent(v) ==
    /\ v.verification = "high_confidence" => (v.confidence >= 85 /\ v.isWaste)
    /\ v.verification = "medium_confidence" =>
          (v.confidence >= 65 /\ v.confidence < 85 /\ v.isWaste)
    /\ v.needsImprovement => (v.isWaste /\ v.confidence > 70 /\ v.confidence < 85)
    /\ v.isVerifiedWaste <=> (v.isWaste /\ v.confidence >= 85)

\* C8: every verdict classify returns, freshly computed or from the cache,
\* has derived fields consistent with its confidence: high_confidence implies
\* confidence >= 0.85, medium_confidence implies 0.65 <= confidence < 0.85,
\* both imply isWaste; needsImprovement implies isWaste and
\* 0.7 < confidence < 0.85; isVerifiedWaste = (isWaste and confidence >= 0.85).
C8_VerdictConsistent ==
    probe.stage \in {"fresh", "cached"} => Consistent(probe.verdict)

C8_Witness ==
    /\ probe.stage = "cached"
    /\ probe.verdict.needsImprovement
    /\ probe.verdict.verification = "medium_confidence"
    /\ Len(probe.data.dets) = 2

WasteConfidences(data) ==
    IF data.shape = "other" THEN {}
    ELSE {data.dets[i].confidence : i \in {j \in 1..Len(data.dets) : data.dets[j].class = 0}}

\* C9: for every answer classify accepts, the verdict's confidence lies in
\* [0, 1], is the greatest confidence among the answer's class-0 detections,
\* and is 0 when it has none.
C9_ConfidenceIsMaxInRange ==
    probe.stage = "fresh" =>
        /\ probe.verdict.confidence >= 0
        /\ probe.verdict.confidence <= 100
        /\ IF WasteConfidences(probe.data) = {}
           THEN probe.verdict.confidence = 0
           ELSE /\ probe.verdict.confidence \in WasteConfidences(probe.data)
                /\ \A c \in WasteConfidences(probe.data) : c <= probe.verdict.confidence

\* C10: when the detector answers with a non-success status, classify fails
\* with a SERVICE_ERROR carrying that status and the body, whatever the body
\* text; SERVICE_DOWN is thrown only for failures of the network.
C10_HttpErrorIsServiceError ==
    \A r \in Reqs :
        /\ reqs[r].det.kind = "http" =>
              /\ reqs[r].thrown # <<>>
              /\ reqs[r].thrown[1] = "SERVICE_ERROR"
              /\ Includes(reqs[r].thrown, ToString(reqs[r].det.status))
              /\ \A i \in 1..Len(reqs[r].det.text) :
                    Includes(reqs[r].thrown, reqs[r].det.text[i])
        /\ (reqs[r].thrown # <<>> /\ reqs[r].thrown[1] = "SERVICE_DOWN") =>
              reqs[r].det.kind = "network"

Waiting(req) == req.pc \in {"fetch", "json", "text"}

\* C11: while classify waits for the detector's answer, status or body, the
\* wait is bounded: a timer of at most 30 seconds is pending that cancels the
\* call; and a call the timer cancelled fails with SERVICE_TIMEOUT.
C11_DetectorWaitBounded ==
    \A r \in Reqs :
        /\ Waiting(reqs[r]) => (reqs[r].abortT >= 0 /\ reqs[r].abortT <= 30000)
        /\ reqs[r].det.kind = "abort" =>
              (reqs[r].thrown # <<>> /\ reqs[r].thrown[1] = "SERVICE_TIMEOUT")

\* C12: a submission whose upload did not complete within 15 seconds is
\* answered 504 CLOUDINARY_TIMEOUT, its upload call is no longer outstanding
\* and no asset of it exists on the host; any other failure of the upload is
\* answered 500 CLOUDINARY_ERROR, with no asset either.
C12_UploadTimeoutCancels ==
    \A r \in SubmitsOf :
        /\ reqs[r].reply.code = "CLOUDINARY_TIMEOUT" =>
              /\ reqs[r].reply.status = 504
              /\ ~reqs[r].uploadLive
              /\ r \notin assets
        /\ reqs[r].reply.code = "CLOUDINARY_ERROR" =>
              /\ reqs[r].reply.status = 500
              /\ r \notin assets

\* C13: when the ledger update fails after the report was saved, the report
\* stays in the collection as it was saved, the asset stays on the host, and
\* the submission ends with one 201 reply.
C13_LedgerFailureKeepsReport ==
    \A r \in SubmitsOf :
        reqs[r].ledgerFailed =>
            /\ reqs[r].pc = "done"
            /\ reqs[r].sent = 1
            /\ reqs[r].reply.status = 201
            /\ reqs[r].ledgerUpdates = 1
            /\ \E rep \in reports :
                  /\ rep.id = r
                  /\ rep.publicId = r
                  /\ rep.aiVerification = <<>> <=> reqs[r].classification = <<>>
            /\ r \in assets

C13_Witness ==
    \E r \in SubmitsOf :
        /\ reqs[r].ledgerFailed
        /\ reqs[r].classification # <<>>
        /\ reqs[r].reply.status = 201
        /\ user.reportCount = 0
        /\ Cardinality(reports) = 1

InFlight(i, h) ==
    {r \in Reqs : Waiting(reqs[r]) /\ reqs[r].impl = i /\ Md5Hex(reqs[r].body.image) = h}

\* C14: of the classify calls on one image that overlap, at most one has a
\* detector request outstanding.
C14_SingleFlight ==
    \A i \in Impls, h \in Hashes : Cardinality(InFlight(i, h)) <= 1

\* C15: the entry of an image stays in the cache until 5 minutes after the
\* most recent store for that image: as long as less than 5 minutes have
\* passed since some store, the entry is there.
C15_StoreResetsExpiry ==
    \A t \in cacheTimers : t.left > 0 => imageCache[t.impl][t.hash] # <<>>

CategoryPoints(reportType) ==
    IF reportType.type = "undefined" THEN 10
    ELSE CASE reportType.s = "standard" -> 10
           [] reportType.s = "hazardous" -> 20
           [] reportType.s = "large" -> 15
           [] OTHER -> 10

\* C16: a submission answered 201 has issued exactly one ledger update, which
\* (unless it failed) raised reportCount by 1 and points by the amount of the
\* report's category (standard 10, hazardous 20, large 15, absent or unknown
\* 10), and its reply's pointsEarned is that amount.
C16_PointsAwarded ==
    \A r \in SubmitsOf :
        reqs[r].reply.status = 201 =>
            /\ reqs[r].ledgerUpdates = 1
            /\ reqs[r].reply.pointsEarned = <<CategoryPoints(reqs[r].body.reportType)>>
            /\ ~reqs[r].ledgerFailed =>
                  user = [reportCount |-> 1,
                          points |-> CategoryPoints(reqs[r].body.reportType)]

WellFormed(body) ==
    /\ body.image.type = "string"
    /\ (body.image.chars * 3) \div 4 <= 5242880
    /\ body.image.clean /\ body.image.chars >= 1
    /\ ~Falsy(body.title) /\ ~Falsy(body.details) /\ ~Falsy(body.address)
    /\ ~Falsy(body.latitude) /\ ~Falsy(body.longitude)

\* C17: the upload is issued only after validation passed and the verdict was
\* accepted (isWaste, confidence >= 0.7) or classification was skipped; the
\* save only after the upload succeeded; the ledger update only after the
\* save succeeded.  A submission that failed in the upload or the save has no
\* report in the collection and has changed nothing in the ledger.
C17_StepsOrdered ==
    \A r \in SubmitsOf :
        /\ reqs[r].uploads > 0 =>
              /\ WellFormed(reqs[r].body)
              /\ \/ ~Falsy(reqs[r].body.forceSubmit) /\ reqs[r].detCalls = 0
                 \/ /\ reqs[r].classification # <<>>
                    /\ reqs[r].classification[1].isWaste
                    /\ reqs[r].classification[1].confidence >= 70
        /\ reqs[r].saves > 0 =>
              /\ reqs[r].uploads = 1
              /\ r \in assets
              /\ reqs[r].reply.code \notin {"CLOUDINARY_TIMEOUT", "CLOUDINARY_ERROR"}
        /\ reqs[r].ledgerUpdates > 0 =>
              /\ reqs[r].saves = 1
              /\ reqs[r].saveError = ""
              /\ \E rep \in reports : rep.id = r
        /\ reqs[r].reply.code \in {"CLOUDINARY_TIMEOUT", "CLOUDINARY_ERROR",
                                   "VALIDATION_ERROR", "INTERNAL_SERVER_ERROR"} =>
              /\ \A rep \in reports : rep.id # r
              /\ reqs[r].ledgerUpdates = 0
              /\ user = [reportCount |-> 0, points |-> 0]

C17_Witness ==
    \E r \in SubmitsOf :
        /\ reqs[r].saveError = "MongoServerError"
        /\ reqs[r].classification # <<>>
        /\ reqs[r].saves = 1
        /\ reqs[r].reply.status = 500
        /\ reports = {}

\* C18: every submission ends: it reaches its end with exactly one reply
\* sent, whichever of the external systems stays silent, the timers of the
\* program being the only thing that is sure to happen.
C18_EverySubmissionEnds ==
    \A r \in Reqs :
        (reqs[r].route = "submit") ~> (reqs[r].pc = "done" /\ reqs[r].sent = 1)

\* C19: when the save fails after the upload succeeded, the uploaded asset
\* stays on the host and no report in the collection refers to it.
C19_OrphanedAsset ==
    \A r \in SubmitsOf :
        reqs[r].saveError # "" =>
            /\ reqs[r].pc = "done"
            /\ r \in assets
            /\ \A rep \in reports : rep.publicId # r

C19_Witness ==
    \E r \in SubmitsOf :
        /\ reqs[r].saveError = "ValidationError"
        /\ ~Falsy(reqs[r].body.forceSubmit)
        /\ reqs[r].reply.status = 400
        /\ assets = {r}
        /\ reports = {}

\* C20: in the implementation the routes import, a verdict classify returns
\* has cacheHit = TRUE exactly when the call issued no detector request.
C20_CacheHitFlag ==
    \A r \in Reqs :
        (reqs[r].impl = "service" /\ reqs[r].route # "none"
         /\ reqs[r].classification # <<>>) =>
            (reqs[r].classification[1].cacheHit <=> reqs[r].detCalls = 0)

\* C21: every report in the collection has aiVerification = null exactly when
\* its submission had forceSubmit set, and otherwise an aiVerification with
\* isWaste = TRUE, confidence >= 0.7 and verification medium_confidence or
\* high_confidence, never unverified, whether the verdict was computed or
\* came from the cache.
C21_PersistedVerification ==
    \A rep \in reports :
        /\ rep.aiVerification = <<>> <=> ~Falsy(reqs[rep.id].body.forceSubmit)
        /\ rep.aiVerification # <<>> =>
              /\ rep.aiVerification[1].isWaste
              /\ rep.aiVerification[1].confidence >= 70
              /\ rep.aiVerification[1].verification \in
                    {"medium_confidence", "high_confidence"}

C21_Witness ==
    \E rep \in reports :
        /\ reqs[rep.id].detCalls = 0
        /\ reqs[rep.id].cacheReads = 1
        /\ rep.aiVerification # <<>>
        /\ rep.aiVerification[1].confidence = 70
        /\ rep.aiVerification[1].verification = "medium_confidence"

Finished ==
    /\ \A r \in Reqs : reqs[r].pc \in {"idle", "done"}
    /\ \A d \in Dels : dels[d].pc \in {"idle", "done"}

RECURSIVE PointsOfReports(_)
PointsOfReports(reps) ==
    IF reps = {} THEN 0
    ELSE LET rep == CHOOSE x \in reps : TRUE
         IN  CategoryPoints(JsStr(rep.reportType)) + PointsOfReports(reps \ {rep})

\* C22: whenever every submit and delete operation has finished, the user's
\* reportCount is the number of the user's reports in the collection and the
\* user's points are the sum of the category points of those reports; neither
\* value is ever negative.
C22_LedgerMatchesReports ==
    /\ user.reportCount >= 0
    /\ user.points >= 0
    /\ Finished =>
          /\ user.reportCount = Cardinality(reports)
          /\ user.points = PointsOfReports(reports)

=============================================================================
